---------------------------- MODULE Spec2Model ----------------------------
(***************************************************************************)
(* A model of summary.py: the Flask handler POST /summarize, the URL       *)
(* parser extract_video_id and the two wrappers around the external        *)
(* transcript and summary services.                                        *)
(*                                                                         *)
(* Python strings are sequences of one-character strings.  A Python value  *)
(* that may be None is a record [t, v]: t is "none", "str" or "int" and v  *)
(* is the string's characters (empty unless t = "str").                    *)
(***************************************************************************)
EXTENDS Integers, Sequences, FiniteSets, TLC

\* ------------------------------------------------------------------ bounds
\* Number of requests that may be in flight at the same time.
NumReqs == 2
\* Longest message text of an exception raised by an external service.
MaxMsgLen == 1
\* Most caption entries the transcript service returns.
MaxCaptions == 2
\* Longest text the summary service returns.
MaxSummaryLen == 1

\* ------------------------------------------------------------ Python values
PyNone == [t |-> "none", v |-> <<>>]
PyInt == [t |-> "int", v |-> <<>>]
Str(s) == [t |-> "str", v |-> s]

\* Python truthiness of a value that is None, a str or a non-zero number:
\* None and "" are falsy.
Truthy(x) == \/ x.t = "int"
             \/ x.t = "str" /\ x.v # <<>>

\* needle in hay, for strings
Contains(hay, needle) ==
    \E i \in 0..(Len(hay) - Len(needle)) :
        SubSeq(hay, i + 1, i + Len(needle)) = needle

\* sep.join(parts), for a sequence of strings
RECURSIVE Join(_, _)
Join(sep, parts) ==
    IF parts = <<>> THEN <<>>
    ELSE IF Len(parts) = 1 THEN parts[1]
    ELSE parts[1] \o sep \o Join(sep, Tail(parts))

\* ------------------------------------------------- extract_video_id's regex
\* The length of the captured group, ([a-zA-Z0-9_-]{11}).
IdLen == 11

Lower == {"a","b","c","d","e","f","g","h","i","j","k","l","m",
          "n","o","p","q","r","s","t","u","v","w","x","y","z"}
Upper == {"A","B","C","D","E","F","G","H","I","J","K","L","M",
          "N","O","P","Q","R","S","T","U","V","W","X","Y","Z"}
Digit == {"0","1","2","3","4","5","6","7","8","9"}
\* [a-zA-Z0-9_-]
IdChars == Lower \cup Upper \cup Digit \cup {"_", "-"}
\* \s
WhiteSpace == {" ", "\t", "\n", "\r", "\f"}

\* the literal lit occurs in s at position i
LitAt(s, i, lit) ==
    /\ i + Len(lit) - 1 <= Len(s)
    /\ SubSeq(s, i, i + Len(lit) - 1) = lit

\* ([a-zA-Z0-9_-]{11}) matches in s at position p
IdAt(s, p) ==
    /\ p >= 1
    /\ p + IdLen - 1 <= Len(s)
    /\ \A k \in p..(p + IdLen - 1) : s[k] \in IdChars

Max(S) == CHOOSE x \in S : \A y \in S : y <= x
Min(S) == CHOOSE x \in S : \A y \in S : x <= y

\* (?:https?:\/\/)? at position i: the positions after it, the greedy choice
\* (the scheme present) first.
SchemeEnds(s, i) ==
    (IF LitAt(s, i, <<"h", "t", "t", "p", "s", ":", "/", "/">>) THEN <<i + 8>>
     ELSE IF LitAt(s, i, <<"h", "t", "t", "p", ":", "/", "/">>) THEN <<i + 7>>
     ELSE <<>>) \o <<i>>

\* (?:www\.)? at position i, the greedy choice first.
WwwEnds(s, i) ==
    (IF LitAt(s, i, <<"w", "w", "w", ".">>) THEN <<i + 4>> ELSE <<>>) \o <<i>>

\* [^\/\n\s]+\/\S+\/ from position h, followed by the group: the position of
\* the group under the regex's priorities (both repetitions greedy), 0 if
\* this alternative does not match.
AltDirs(s, h) ==
    LET ok(k) == s[k] # "/" /\ s[k] \notin WhiteSpace
        As == {a \in (h + 1)..Len(s) :
                 /\ \A k \in h..(a - 1) : ok(k)
                 /\ s[a] = "/"}
        Bs(a) == {b \in (a + 2)..Len(s) :
                 /\ \A k \in (a + 1)..(b - 1) : s[k] \notin WhiteSpace
                 /\ s[b] = "/"
                 /\ IdAt(s, b + 1)}
        Good == {a \in As : Bs(a) # {}}
        Longest == {a \in Good : \A a2 \in Good : a2 <= a}
    IN  IF Good = {} THEN 0
        ELSE CHOOSE p \in {Max(Bs(a)) + 1 : a \in Longest} : TRUE

\* (?:v|e(?:mbed)?)\/ from position h, followed by the group.
AltEmbed(s, h) ==
    IF LitAt(s, h, <<"v", "/">>) /\ IdAt(s, h + 2) THEN h + 2
    ELSE IF LitAt(s, h, <<"e", "m", "b", "e", "d", "/">>) /\ IdAt(s, h + 6) THEN h + 6
    ELSE IF LitAt(s, h, <<"e", "/">>) /\ IdAt(s, h + 2) THEN h + 2
    ELSE 0

\* \S*?[?&]v= from position h, followed by the group (\S*? is lazy: the
\* shortest first).
AltQuery(s, h) ==
    LET Qs == {q \in h..Len(s) :
                 /\ \A k \in h..(q - 1) : s[k] \notin WhiteSpace
                 /\ s[q] \in {"?", "&"}
                 /\ LitAt(s, q + 1, <<"v", "=">>)
                 /\ IdAt(s, q + 3)}
    IN  IF Qs = {} THEN 0 ELSE Min(Qs) + 3

\* (?:youtube\.com\/(?:...|...|...)|youtu\.be\/) from position h, followed by
\* the group: the alternatives in the regex's order.
HostAt(s, h) ==
    LET y == h + 12
        viaCom == IF ~LitAt(s, h, <<"y", "o", "u", "t", "u", "b", "e", ".", "c", "o", "m", "/">>) THEN 0
                  ELSE IF AltDirs(s, y) # 0 THEN AltDirs(s, y)
                  ELSE IF AltEmbed(s, y) # 0 THEN AltEmbed(s, y)
                  ELSE AltQuery(s, y)
    IN  IF viaCom # 0 THEN viaCom
        ELSE IF LitAt(s, h, <<"y", "o", "u", "t", "u", ".", "b", "e", "/">>) /\ IdAt(s, h + 9) THEN h + 9
        ELSE 0

\* The first success in a sequence of attempts (0 is failure).
RECURSIVE FirstNonZero(_)
FirstNonZero(ps) ==
    IF ps = <<>> THEN 0
    ELSE IF Head(ps) # 0 THEN Head(ps)
    ELSE FirstNonZero(Tail(ps))

\* The whole pattern anchored at position i: where the group starts, or 0.
MatchAt(s, i) ==
    LET afterScheme == SchemeEnds(s, i)
        tryWww(j) == FirstNonZero([n \in 1..Len(WwwEnds(s, j)) |->
                                      HostAt(s, WwwEnds(s, j)[n])])
    IN  FirstNonZero([n \in 1..Len(afterScheme) |-> tryWww(afterScheme[n])])

\* re.search(pattern, url): the leftmost position at which the pattern
\* matches, and group(1) of that match.
Group1(url, i) ==
    Str(SubSeq(url, MatchAt(url, i), MatchAt(url, i) + IdLen - 1))
extract_video_id(url) ==
    LET starts == {i \in 1..(Len(url) + 1) : MatchAt(url, i) # 0}
        leftmost == {i \in starts : \A j \in starts : i <= j}
    IN  IF starts = {} THEN PyNone
        ELSE CHOOSE g \in {Group1(url, i) : i \in leftmost} : TRUE

\* ------------------------------------------------------- external services
\* What YouTubeTranscriptApi.get_transcript does with one call: it returns a
\* list of caption entries (here: the "text" of each) or raises an exception
\* whose str() is msg.
MsgChars == {"x"}
Msgs == UNION {[1..n -> MsgChars] : n \in 0..MaxMsgLen}
CaptionTexts == {<<"h", "i">>}
CaptionLists == UNION {[1..n -> CaptionTexts] : n \in 0..MaxCaptions}
TranscriptOutcomes ==
    [kind : {"return"}, captions : CaptionLists, msg : {<<>>}]
    \cup [kind : {"raise"}, captions : {<<>>}, msg : Msgs]

\* What model.generate_content(prompt) followed by response.text does: it
\* returns a text or raises an exception whose str() is msg.
SummaryChars == {"s"}
SummaryTexts == UNION {[1..n -> SummaryChars] : n \in 0..MaxSummaryLen}
SummaryOutcomes ==
    [kind : {"return"}, text : SummaryTexts, msg : {<<>>}]
    \cup [kind : {"raise"}, text : {<<>>}, msg : Msgs]

\* get_transcript(video_id), given what the service does: (transcript, error)
get_transcript(o) ==
    IF o.kind = "return"
    THEN <<Str(Join(<<" ">>, o.captions)), PyNone>>
    ELSE <<PyNone, Str(o.msg)>>

\* generate_summary(transcript), given what the service does: (summary, error)
generate_summary(o) ==
    IF o.kind = "return"
    THEN <<Str(o.text), PyNone>>
    ELSE <<PyNone, Str(o.msg)>>

\* ----------------------------------------------------------------- requests
Reqs == 1..NumReqs

\* The body of a POST /summarize request: not JSON at all, JSON that is not
\* an object, or an object whose videoUrl is absent (None), a number or a
\* string.
Urls == {<<>>,
         <<"y", "o", "u", "t", "u", ".", "b", "e", "/", "s", "h", "o", "r", "t">>,
         <<"h", "t", "t", "p", "s", ":", "/", "/", "y", "o", "u", "t", "u", ".", "b", "e", "/", "d", "Q", "w", "4", "w", "9", "W", "g", "X", "c", "Q">>}
Bodies ==
    [kind : {"notjson", "nonobject"}, videoUrl : {PyNone}]
    \cup [kind : {"object"}, videoUrl : {PyNone, PyInt} \cup {Str(u) : u \in Urls}]
NoBody == [kind |-> "none", videoUrl |-> PyNone]

\* extract_video_id on the URLs a request can carry, evaluated once.
VideoIdOf == [u \in Urls |-> extract_video_id(u)]

\* str(e) of the exceptions the handler's own statements raise
MsgBadRequest == <<"4", "0", "0", " ", "B", "a", "d", " ", "R", "e", "q", "u", "e", "s", "t">>
MsgNoGet == <<"o", "b", "j", "e", "c", "t", " ", "h", "a", "s", " ", "n", "o", " ", "a", "t", "t", "r", "i", "b", "u", "t", "e", " ", "'", "g", "e", "t", "'">>
MsgNotString == <<"e", "x", "p", "e", "c", "t", "e", "d", " ", "s", "t", "r", "i", "n", "g", " ", "o", "r", " ", "b", "y", "t", "e", "s", "-", "l", "i", "k", "e", " ", "o", "b", "j", "e", "c", "t">>

\* The texts of the handler's error responses
InvalidUrl == <<"I", "n", "v", "a", "l", "i", "d", " ", "Y", "o", "u", "T", "u", "b", "e", " ", "U", "R", "L">>
TranscriptPrefix == <<"E", "r", "r", "o", "r", " ", "r", "e", "t", "r", "i", "e", "v", "i", "n", "g", " ", "t", "r", "a", "n", "s", "c", "r", "i", "p", "t", ":", " ">>
SummaryPrefix == <<"E", "r", "r", "o", "r", " ", "g", "e", "n", "e", "r", "a", "t", "i", "n", "g", " ", "s", "u", "m", "m", "a", "r", "y", ":", " ">>

\* A response: the HTTP code and the JSON object (keys: the fields it has).
NoResp == [code |-> 0, keys |-> {}, status |-> "", error |-> PyNone,
           transcript |-> PyNone, summary |-> PyNone]
ErrorResp(code, text) ==
    [code |-> code, keys |-> {"error", "status"}, status |-> "error",
     error |-> Str(text), transcript |-> PyNone, summary |-> PyNone]
SuccessResp(t, s) ==
    [code |-> 200, keys |-> {"transcript", "summary", "status"},
     status |-> "success", error |-> PyNone, transcript |-> t, summary |-> s]

VARIABLES
    pc,                \* where each request's handler is
    body,              \* the request's body
    video_url,         \* summarize's locals
    video_id,
    transcript,
    transcript_error,
    summary,
    summary_error,
    resp,              \* the response sent
    nResp,             \* how many responses the request has sent
    tLog,              \* the calls made to the transcript service: argument, outcome
    sLog,              \* the calls made to the summary service: argument, outcome
    ppc,               \* the parser on its own: position, input, result
    url_in,
    parsed

locals == <<video_url, video_id, transcript, transcript_error, summary, summary_error>>
reqVars == <<pc, body, locals, resp, nResp, tLog, sLog>>
parseVars == <<ppc, url_in, parsed>>
vars == <<reqVars, parseVars>>

NoInput == [lead |-> <<>>, scheme |-> <<>>, www |-> <<>>, form |-> <<>>,
            id |-> <<>>, tail |-> <<>>]

ReqInit ==
    /\ pc = [r \in Reqs |-> "idle"]
    /\ body = [r \in Reqs |-> NoBody]
    /\ video_url = [r \in Reqs |-> PyNone]
    /\ video_id = [r \in Reqs |-> PyNone]
    /\ transcript = [r \in Reqs |-> PyNone]
    /\ transcript_error = [r \in Reqs |-> PyNone]
    /\ summary = [r \in Reqs |-> PyNone]
    /\ summary_error = [r \in Reqs |-> PyNone]
    /\ resp = [r \in Reqs |-> NoResp]
    /\ nResp = [r \in Reqs |-> 0]
    /\ tLog = [r \in Reqs |-> <<>>]
    /\ sLog = [r \in Reqs |-> <<>>]

Init ==
    /\ ReqInit
    /\ ppc = "off"
    /\ url_in = NoInput
    /\ parsed = PyNone

\* `return jsonify(...), code`: the request's one response.
Respond(r, response) ==
    /\ resp' = [resp EXCEPT ![r] = response]
    /\ nResp' = [nResp EXCEPT ![r] = @ + 1]
    /\ pc' = [pc EXCEPT ![r] = "done"]

\* A handler whose except clause raises again: the exception leaves the
\* handler and the request gets no response from it.
CatchAll_Reraise(r, text) ==
    /\ pc' = [pc EXCEPT ![r] = "escaped"]
    /\ UNCHANGED <<resp, nResp>>

\* except Exception as e: return jsonify({"error": str(e), ...}), 500
CatchAll(r, text) == Respond(r, ErrorResp(500, text))

\* Flask calls summarize() for a new request, whose body is any of Bodies;
\* the call's locals are its own and still unset.
Receive(r) ==
    /\ pc[r] = "idle"
    /\ \E b \in Bodies : body' = [body EXCEPT ![r] = b]
    /\ pc' = [pc EXCEPT ![r] = "start"]
    /\ UNCHANGED <<locals, resp, nResp, tLog, sLog, parseVars>>

\* video_url = request.json.get("videoUrl")
ReadBody(r) ==
    /\ pc[r] = "start"
    /\ IF body[r].kind = "notjson"
       THEN CatchAll(r, MsgBadRequest) /\ UNCHANGED video_url
       ELSE IF body[r].kind = "nonobject"
       THEN CatchAll(r, MsgNoGet) /\ UNCHANGED video_url
       ELSE /\ video_url' = [video_url EXCEPT ![r] = body[r].videoUrl]
            /\ pc' = [pc EXCEPT ![r] = "extract"]
            /\ UNCHANGED <<resp, nResp>>
    /\ UNCHANGED <<body, video_id, transcript, transcript_error, summary,
                   summary_error, tLog, sLog, parseVars>>

\* An ExtractId without the `if not video_id` return.
ExtractId_NoCheck(r) ==
    /\ pc[r] = "extract"
    /\ IF video_url[r].t # "str"
       THEN CatchAll(r, MsgNotString) /\ UNCHANGED video_id
       ELSE /\ video_id' = [video_id EXCEPT ![r] = VideoIdOf[video_url[r].v]]
            /\ pc' = [pc EXCEPT ![r] = "fetch"]
            /\ UNCHANGED <<resp, nResp>>
    /\ UNCHANGED <<body, video_url, transcript, transcript_error, summary,
                   summary_error, tLog, sLog, parseVars>>

\* video_id = extract_video_id(video_url); if not video_id: return ..., 400
ExtractId(r) ==
    /\ pc[r] = "extract"
    /\ IF video_url[r].t # "str"
       THEN CatchAll(r, MsgNotString) /\ UNCHANGED video_id
       ELSE LET id == VideoIdOf[video_url[r].v]
            IN  /\ video_id' = [video_id EXCEPT ![r] = id]
                /\ IF ~Truthy(id)
                   THEN Respond(r, ErrorResp(400, InvalidUrl))
                   ELSE /\ pc' = [pc EXCEPT ![r] = "fetch"]
                        /\ UNCHANGED <<resp, nResp>>
    /\ UNCHANGED <<body, video_url, transcript, transcript_error, summary,
                   summary_error, tLog, sLog, parseVars>>

\* A FetchTranscript that calls the service again when it has raised.
FetchTranscript_Retry(r) ==
    /\ pc[r] = "fetch"
    /\ \E o \in TranscriptOutcomes :
         LET res == get_transcript(o)
         IN  /\ tLog' = [tLog EXCEPT ![r] = Append(@, [arg |-> video_id[r], out |-> o])]
             /\ transcript' = [transcript EXCEPT ![r] = res[1]]
             /\ transcript_error' = [transcript_error EXCEPT ![r] = res[2]]
             /\ IF Truthy(res[2])
                THEN UNCHANGED <<pc, resp, nResp>>
                ELSE /\ pc' = [pc EXCEPT ![r] = "summarize"]
                     /\ UNCHANGED <<resp, nResp>>
    /\ UNCHANGED <<body, video_url, video_id, summary, summary_error, sLog,
                   parseVars>>

\* A FetchTranscript that keeps the transcript in a module-level global,
\* which every request in flight reads.
FetchTranscript_Shared(r) ==
    /\ pc[r] = "fetch"
    /\ \E o \in TranscriptOutcomes :
         LET res == get_transcript(o)
         IN  /\ tLog' = [tLog EXCEPT ![r] = Append(@, [arg |-> video_id[r], out |-> o])]
             /\ transcript' = [q \in Reqs |-> res[1]]
             /\ transcript_error' = [transcript_error EXCEPT ![r] = res[2]]
             /\ IF Truthy(res[2])
                THEN Respond(r, ErrorResp(500, TranscriptPrefix \o res[2].v))
                ELSE /\ pc' = [pc EXCEPT ![r] = "summarize"]
                     /\ UNCHANGED <<resp, nResp>>
    /\ UNCHANGED <<body, video_url, video_id, summary, summary_error, sLog,
                   parseVars>>

\* transcript, transcript_error = get_transcript(video_id)
\* if transcript_error: return ..., 500
FetchTranscript(r) ==
    /\ pc[r] = "fetch"
    /\ \E o \in TranscriptOutcomes :
         LET res == get_transcript(o)
         IN  /\ tLog' = [tLog EXCEPT ![r] = Append(@, [arg |-> video_id[r], out |-> o])]
             /\ transcript' = [transcript EXCEPT ![r] = res[1]]
             /\ transcript_error' = [transcript_error EXCEPT ![r] = res[2]]
             /\ IF Truthy(res[2])
                THEN Respond(r, ErrorResp(500, TranscriptPrefix \o res[2].v))
                ELSE /\ pc' = [pc EXCEPT ![r] = "summarize"]
                     /\ UNCHANGED <<resp, nResp>>
    /\ UNCHANGED <<body, video_url, video_id, summary, summary_error, sLog,
                   parseVars>>

\* A GenerateSummary whose error response carries the transcript it has.
GenerateSummary_Partial(r) ==
    /\ pc[r] = "summarize"
    /\ \E o \in SummaryOutcomes :
         LET res == generate_summary(o)
         IN  /\ sLog' = [sLog EXCEPT ![r] = Append(@, [arg |-> transcript[r], out |-> o])]
             /\ summary' = [summary EXCEPT ![r] = res[1]]
             /\ summary_error' = [summary_error EXCEPT ![r] = res[2]]
             /\ IF Truthy(res[2])
                THEN Respond(r, [ErrorResp(500, SummaryPrefix \o res[2].v)
                                   EXCEPT !.keys = @ \cup {"transcript"},
                                          !.transcript = transcript[r]])
                ELSE Respond(r, SuccessResp(transcript[r], res[1]))
    /\ UNCHANGED <<body, video_url, video_id, transcript, transcript_error,
                   tLog, parseVars>>

\* summary, summary_error = generate_summary(transcript)
\* if summary_error: return ..., 500
\* return jsonify({"transcript": transcript, "summary": summary, ...})
GenerateSummary(r) ==
    /\ pc[r] = "summarize"
    /\ \E o \in SummaryOutcomes :
         LET res == generate_summary(o)
         IN  /\ sLog' = [sLog EXCEPT ![r] = Append(@, [arg |-> transcript[r], out |-> o])]
             /\ summary' = [summary EXCEPT ![r] = res[1]]
             /\ summary_error' = [summary_error EXCEPT ![r] = res[2]]
             /\ IF Truthy(res[2])
                THEN Respond(r, ErrorResp(500, SummaryPrefix \o res[2].v))
                ELSE Respond(r, SuccessResp(transcript[r], res[1]))
    /\ UNCHANGED <<body, video_url, video_id, transcript, transcript_error,
                   tLog, parseVars>>

\* One step of request r's handler.
HandlerStep(r) ==
    \/ ReadBody(r)
    \/ ExtractId(r)
    \/ FetchTranscript(r)
    \/ GenerateSummary(r)

\* The server runs a handler.
Handle == \E r \in Reqs : HandlerStep(r)

Next ==
    \/ \E r \in Reqs : Receive(r)
    \/ Handle

Spec == Init /\ [][Next]_vars

\* The server keeps running the handlers it has started, and each external
\* call returns or raises: while some handler has a step to take, one is
\* taken.  A handler takes at most four steps, so none is left behind.
FairSpec == Spec /\ WF_vars(Handle)

\* ------------------------------------------------- the parser on its own
\* Inputs of extract_video_id, built from their parts: text before the URL,
\* scheme, www., host and path up to the id, the id part, text after it.
MaxIdExtra == 1
IdSource == <<"d", "Q", "w", "4", "w", "9", "W", "g", "X", "c", "Q">>
IdOfLen(n) == [k \in 1..n |-> IdSource[((k - 1) % IdLen) + 1]]
Leads == {<<>>, <<"x">>}
Schemes == {<<>>, <<"h", "t", "t", "p", ":", "/", "/">>, <<"h", "t", "t", "p", "s", ":", "/", "/">>}
Wwws == {<<>>, <<"w", "w", "w", ".">>}
KnownForms == {<<"y", "o", "u", "t", "u", ".", "b", "e", "/">>, <<"y", "o", "u", "t", "u", "b", "e", ".", "c", "o", "m", "/", "w", "a", "t", "c", "h", "?", "v", "=">>,
               <<"y", "o", "u", "t", "u", "b", "e", ".", "c", "o", "m", "/", "e", "m", "b", "e", "d", "/">>, <<"y", "o", "u", "t", "u", "b", "e", ".", "c", "o", "m", "/", "v", "/">>}
OtherForms == {<<"y", "o", "u", "t", "u", "b", "e", ".", "c", "o", "m", "/", "e", "/">>, <<"y", "o", "u", "t", "u", "b", "e", ".", "c", "o", "m", "/", "u", "s", "e", "r", "/", "x", "/">>,
               <<"y", "o", "u", "t", "u", "b", "e", ".", "c", "o", "m", "/">>, <<"v", "i", "m", "e", "o", ".", "c", "o", "m", "/">>}
IdParts == {IdOfLen(n) : n \in (IdLen - 1)..(IdLen + MaxIdExtra)}
           \cup {<<"d", "Q", "w", "4", "w", "!", "W", "g", "X", "c", "Q">>}
Tails == {<<>>, <<"&", "t", "=", "1">>, <<"&", "u", "=", "a", "/", "b", "/", "B", "B", "B", "B", "B", "B", "B", "B", "B", "B", "B">>}
ParseInputs ==
    [lead : Leads, scheme : Schemes, www : Wwws,
     form : KnownForms \cup OtherForms, id : IdParts, tail : Tails]
TextOf(i) == i.lead \o i.scheme \o i.www \o i.form \o i.id \o i.tail

InitParse ==
    /\ ReqInit
    /\ ppc = "input"
    /\ url_in \in ParseInputs
    /\ parsed = PyNone

ApplyParser ==
    /\ ppc = "input"
    /\ parsed' = extract_video_id(TextOf(url_in))
    /\ ppc' = "parsed"
    /\ UNCHANGED <<url_in, reqVars>>

NextParse == ApplyParser

SpecParse == InitParse /\ [][NextParse]_vars

\* ------------------------------------------------------------------ claims
\* What the claims say about a request, in terms of its body and of the
\* calls it made.
IsStringUrl(b) == b.kind = "object" /\ b.videoUrl.t = "str"
Unparseable(b) == IsStringUrl(b) /\ VideoIdOf[b.videoUrl.v] = PyNone
Malformed(b) == b.kind \in {"notjson", "nonobject"}
                \/ (b.kind = "object" /\ b.videoUrl.t # "str")
TranscriptRaised(r) == \E n \in 1..Len(tLog[r]) : tLog[r][n].out.kind = "raise"
SummaryRaised(r) == \E n \in 1..Len(sLog[r]) : sLog[r][n].out.kind = "raise"
IsError(rsp, code) ==
    /\ rsp.code = code
    /\ rsp.keys = {"error", "status"}
    /\ rsp.status = "error"
    /\ rsp.error.t = "str"
IsSuccess(rsp) ==
    /\ rsp.code = 200
    /\ rsp.keys = {"transcript", "summary", "status"}
    /\ rsp.status = "success"

\* C1: a request whose transcript call raised, with any message text, ends
\* in HTTP 500, status "error", with an error string containing that text.
C1_TranscriptRaiseIs500 ==
    \A r \in Reqs :
        (pc[r] = "done" /\ tLog[r] # <<>> /\ tLog[r][1].out.kind = "raise")
        => /\ IsError(resp[r], 500)
           /\ Contains(resp[r].error.v, tLog[r][1].out.msg)

\* C2: a request whose transcript was fetched and whose summary call raised,
\* with any message text, ends in HTTP 500, status "error", with an error
\* string containing that text.
C2_SummaryRaiseIs500 ==
    \A r \in Reqs :
        (/\ pc[r] = "done"
         /\ tLog[r] # <<>> /\ tLog[r][1].out.kind = "return"
         /\ sLog[r] # <<>> /\ sLog[r][1].out.kind = "raise")
        => /\ IsError(resp[r], 500)
           /\ Contains(resp[r].error.v, sLog[r][1].out.msg)

\* C3: a request whose videoUrl is a string in which the parser finds no id
\* (the empty string included) calls neither service and is answered with
\* HTTP 400, status "error", error "Invalid YouTube URL".
C3_UnparseableIs400 ==
    \A r \in Reqs :
        Unparseable(body[r])
        => /\ tLog[r] = <<>>
           /\ sLog[r] = <<>>
           /\ pc[r] = "done" => /\ IsError(resp[r], 400)
                                /\ resp[r].error.v = InvalidUrl

\* C3's case: one request with the empty URL and one with a non-empty URL
\* without an id have both been answered.
C3_Witness ==
    \E r1, r2 \in Reqs :
        /\ pc[r1] = "done" /\ body[r1].videoUrl = Str(<<>>) /\ resp[r1].code = 400
        /\ pc[r2] = "done" /\ Unparseable(body[r2]) /\ body[r2].videoUrl.v # <<>>
        /\ resp[r2].code = 400

\* C4: every 200/"success" response has a transcript and a summary that are
\* non-empty strings.
C4_SuccessIsNonEmpty ==
    \A r \in Reqs :
        (pc[r] = "done" /\ resp[r].code = 200)
        => /\ resp[r].transcript.t = "str" /\ resp[r].transcript.v # <<>>
           /\ resp[r].summary.t = "str" /\ resp[r].summary.v # <<>>

\* C5: for an input of a known shape (optional scheme and www., one of the
\* four forms, an id of exactly 11 id characters, and nothing after it but,
\* for a watch URL, further query parameters) extract_video_id returns that
\* id; for an input of no known shape (another host, or an id part with
\* fewer than 11 id characters) it returns None.
KnownShape(i) ==
    /\ i.lead = <<>>
    /\ i.form \in KnownForms
    /\ Len(i.id) = IdLen
    /\ \A k \in 1..Len(i.id) : i.id[k] \in IdChars
    /\ \/ i.tail = <<>>
       \/ i.form = <<"y", "o", "u", "t", "u", "b", "e", ".", "c", "o", "m", "/", "w", "a", "t", "c", "h", "?", "v", "=">> /\ Head(i.tail) = "&"
NoKnownShape(i) ==
    \/ i.form = <<"v", "i", "m", "e", "o", ".", "c", "o", "m", "/">>
    \/ Len(i.id) < IdLen
    \/ \E k \in 1..Len(i.id) : i.id[k] \notin IdChars
C5_ParserIsExact ==
    ppc = "parsed"
    => /\ KnownShape(url_in) => parsed = Str(url_in.id)
       /\ NoKnownShape(url_in) => parsed = PyNone

\* C6: every response is {transcript, summary, status: "success"} with 200
\* or {error, status: "error"} with 400 or 500; 400 only for an invalid URL
\* and 500 only when the transcript or the summary call failed.
ResponseShape(rsp) ==
    /\ IsSuccess(rsp) \/ IsError(rsp, 400) \/ IsError(rsp, 500)
    /\ rsp.status = "success" <=> rsp.code = 200
C6_Original ==
    \A r \in Reqs :
        pc[r] = "done"
        => /\ ResponseShape(resp[r])
           /\ resp[r].code = 400 => Unparseable(body[r])
           /\ resp[r].code = 500 => TranscriptRaised(r) \/ SummaryRaised(r)

\* C6, amended: ... and 500 only when the transcript or the summary call
\* failed or the handler's catch-all caught an exception of its own
\* statements (a body that is not a JSON object, a videoUrl that is not a
\* string).
C6_Amended ==
    \A r \in Reqs :
        pc[r] = "done"
        => /\ ResponseShape(resp[r])
           /\ resp[r].code = 400 => Unparseable(body[r])
           /\ resp[r].code = 500
              => TranscriptRaised(r) \/ SummaryRaised(r) \/ Malformed(body[r])

\* C6's case: a 500 response for a downstream failure and a 500 response of
\* the catch-all, for a request that made no call.
C6_Witness ==
    \E r1, r2 \in Reqs :
        /\ pc[r1] = "done" /\ resp[r1].code = 500 /\ SummaryRaised(r1)
        /\ pc[r2] = "done" /\ resp[r2].code = 500 /\ tLog[r2] = <<>>
        /\ body[r2].kind = "nonobject"

\* C7: the transcript service is called only with an extracted id, and the
\* summary service only after the transcript service returned without
\* raising, and with the transcript text it returned.
C7_StepsInOrder ==
    \A r \in Reqs :
        /\ tLog[r] # <<>>
           => tLog[r][1].arg.t = "str" /\ Len(tLog[r][1].arg.v) = IdLen
        /\ sLog[r] # <<>>
           => /\ tLog[r] # <<>>
              /\ tLog[r][1].out.kind = "return"
              /\ sLog[r][1].arg = Str(Join(<<" ">>, tLog[r][1].out.captions))

\* C8: within one request each service is called at most once.
C8_NoRetry ==
    \A r \in Reqs : Len(tLog[r]) <= 1 /\ Len(sLog[r]) <= 1

\* C8's case: a request whose transcript call raised and a request whose
\* summary call raised have both ended.
C8_Witness ==
    \E r1, r2 \in Reqs :
        /\ pc[r1] = "done" /\ TranscriptRaised(r1) /\ resp[r1].code = 500
        /\ pc[r2] = "done" /\ SummaryRaised(r2) /\ resp[r2].code = 500

\* C9: whatever the interleaving, a request's response, and the arguments of
\* its calls, are determined by its own body and the outcomes of its own
\* calls; a request that has not started holds nothing.
ResponseOf(b, tl, sl) ==
    IF b.kind = "notjson" THEN ErrorResp(500, MsgBadRequest)
    ELSE IF b.kind = "nonobject" THEN ErrorResp(500, MsgNoGet)
    ELSE IF b.videoUrl.t # "str" THEN ErrorResp(500, MsgNotString)
    ELSE IF VideoIdOf[b.videoUrl.v] = PyNone THEN ErrorResp(400, InvalidUrl)
    ELSE LET t == get_transcript(tl[1].out)
         IN  IF Truthy(t[2]) THEN ErrorResp(500, TranscriptPrefix \o t[2].v)
             ELSE LET g == generate_summary(sl[1].out)
                  IN  IF Truthy(g[2]) THEN ErrorResp(500, SummaryPrefix \o g[2].v)
                      ELSE SuccessResp(t[1], g[1])
C9_Independent ==
    \A r \in Reqs :
        /\ pc[r] = "done" => resp[r] = ResponseOf(body[r], tLog[r], sLog[r])
        /\ tLog[r] # <<>> => tLog[r][1].arg = VideoIdOf[body[r].videoUrl.v]
        /\ sLog[r] # <<>> => sLog[r][1].arg = get_transcript(tLog[r][1].out)[1]
        /\ pc[r] = "idle"
           => /\ resp[r] = NoResp /\ tLog[r] = <<>> /\ sLog[r] = <<>>
              /\ \A n \in 1..Len(locals) : locals[n][r] = PyNone

\* C9's case: two requests with different transcripts have both ended, one
\* with a failure and one with success.
C9_Witness ==
    \E r1, r2 \in Reqs :
        /\ pc[r1] = "done" /\ pc[r2] = "done"
        /\ resp[r1].code = 500 /\ TranscriptRaised(r1)
        /\ resp[r2].code = 200 /\ resp[r2].transcript.v # <<>>

\* C10: every request ends with exactly one response and no exception
\* leaves the handler; a request whose body is not JSON, or whose videoUrl is
\* absent or not a string, is answered 500 {error, status: "error"} without
\* a call to either service.
C10_Safe ==
    \A r \in Reqs :
        /\ pc[r] \in {"idle", "start", "extract", "fetch", "summarize", "done"}
        /\ nResp[r] = IF pc[r] = "done" THEN 1 ELSE 0
        /\ pc[r] = "done" => resp[r].code \in {200, 400, 500} /\ "status" \in resp[r].keys
        /\ Malformed(body[r])
           => /\ tLog[r] = <<>> /\ sLog[r] = <<>>
              /\ pc[r] = "done" => IsError(resp[r], 500)
C10_AlwaysOneResponse ==
    /\ []C10_Safe
    /\ <>[](\A r \in Reqs : pc[r] \in {"idle", "done"})

\* C10's case: a request that is not JSON and a request without a videoUrl
\* have both been answered.
C10_Witness ==
    \E r1, r2 \in Reqs :
        /\ pc[r1] = "done" /\ body[r1].kind = "notjson" /\ resp[r1].code = 500
        /\ pc[r2] = "done" /\ body[r2].kind = "object" /\ body[r2].videoUrl = PyNone
        /\ resp[r2].code = 500

====
